---- MODULE Spec2Model ----
(***************************************************************************)
(* Distributed comparison function (DCF) of src/src/lib.rs: the dealer's   *)
(* gen, the evaluators' eval over a batch, and the narrowing of a share to *)
(* one party, for the instantiation DcfImpl::<N, LAMBDA, PrgT>.            *)
(*                                                                         *)
(* A [u8; K] array is a sequence of K bytes (naturals below 256); a bool   *)
(* is a BOOLEAN.  The PRG is a trait object: the model draws it from a     *)
(* keyed family of deterministic functions.                                *)
(***************************************************************************)
EXTENDS Integers, Sequences, FiniteSets, TLC

\* ------------------------------------------------------------ parameters

\* const generics of DcfImpl: byte size of the domain and of the range
N == 1
Lambda == 1

\* bits of a u8, the factor of `let n = 8 * N`
BitsPerByte == 8

IDX_L == 0
IDX_R == 1

\* ---------------------------------------------------------------- bounds

\* number of PRG implementations the model draws from
NumPrgKeys == 3
\* longest input batch / output slice handed to eval
MaxBatch == 2

\* ------------------------------------------------------------ byte arrays

Byte == 0..255

RECURSIVE XorBits(_, _, _)
XorBits(a, b, w) ==
  IF w = 0 THEN 0
  ELSE (((a % 2) + (b % 2)) % 2) + 2 * XorBits(a \div 2, b \div 2, w - 1)

\* u8 ^ u8, tabulated once
XorTab == [a \in Byte |-> [b \in Byte |-> XorBits(a, b, BitsPerByte)]]

Zero == [i \in 1..Lambda |-> 0]

\* utils::xor of two arrays: element-wise u8 XOR
Xor(a, b) == [i \in 1..Lambda |-> XorTab[a[i]][b[i]]]

Xor3(a, b, c) == Xor(Xor(a, b), c)

Xor4(a, b, c, d) == Xor(Xor(Xor(a, b), c), d)

\* `if t { &w } else { &[0; LAMBDA] }`
Sel(t, w) == IF t THEN w ELSE Zero

\* the bits of a byte read least-significant first (Lsb0 for Msb0)
BitAtLsb0(x, i) ==
  LET byte == x[((i - 1) \div BitsPerByte) + 1]
      pos  == (i - 1) % BitsPerByte
  IN  (byte \div (2 ^ pos)) % 2 = 1

\* x.view_bits::<Msb0>()[i - 1] for level i in 1..8*N
BitAt(x, i) ==
  LET byte == x[((i - 1) \div BitsPerByte) + 1]
      pos  == (i - 1) % BitsPerByte
  IN  (byte \div (2 ^ (BitsPerByte - 1 - pos))) % 2 = 1

\* the array read as an unsigned integer, byte 0 most significant
RECURSIVE ValueOf(_)
ValueOf(x) ==
  IF Len(x) = 0 THEN 0
  ELSE (ValueOf(SubSeq(x, 1, Len(x) - 1)) * 256) + x[Len(x)]

\* -------------------------------------------------------------------- PRG

PrgKeys == 0..(NumPrgKeys - 1)

RECURSIVE Mix(_, _)
Mix(acc, seed) ==
  IF Len(seed) = 0 THEN acc
  ELSE Mix(((acc * 31) + Head(seed) + 7) % 1009, Tail(seed))

\* one output field of an implementation of Prg::gen, a number below 1009
PrgField(key, seed, slot, j) ==
  LET m == Mix(key + 1, seed)
  IN  ((m * m * (2 * slot + 3)) + (m * (key + 5)) + (131 * slot) + (17 * j) + key) % 1009

PrgBytes(key, seed, slot) ==
  [j \in 1..Lambda |-> PrgField(key, seed, slot, j) % 256]

PrgBit(key, seed, slot) == (PrgField(key, seed, slot, 0) \div 7) % 2 = 1

\* Prg::gen(seed) -> [(s, v, t); 2]; key 0 is the constant PRG
Prg(key, seed) ==
  IF key = 0
  THEN << [s |-> Zero, v |-> Zero, t |-> FALSE],
          [s |-> Zero, v |-> Zero, t |-> FALSE] >>
  ELSE << [s |-> PrgBytes(key, seed, 0), v |-> PrgBytes(key, seed, 1),
           t |-> PrgBit(key, seed, 2)],
          [s |-> PrgBytes(key, seed, 3), v |-> PrgBytes(key, seed, 4),
           t |-> PrgBit(key, seed, 5)] >>

\* ---------------------------------------------------------------- shares

BoundState == {"LtBeta", "GtBeta"}

\* struct Cw
MkCw(s, v, tl, tr) == [s |-> s, v |-> v, tl |-> tl, tr |-> tr]

\* struct Share
MkShare(s0s, cws, cw_np1) == [s0s |-> s0s, cws |-> cws, cw_np1 |-> cw_np1]

NoShare == MkShare(<< >>, << >>, Zero)

\* ------------------------------------------------------------------- gen

\* the bit size of alpha, `let n = 8 * N`
GenN == BitsPerByte * N

\* the loop written `for i in 1..n`: one level short
GenLastLevelShort == GenN - 1

\* last value of the loop `for i in 1..n + 1`
GenLastLevel == GenN

\* keep taken from the side alpha leaves
KeepSwapped(alpha_i) == IF alpha_i THEN IDX_L ELSE IDX_R

\* (keep, lose) of a level, from the bit of alpha
Keep(alpha_i) == IF alpha_i THEN IDX_R ELSE IDX_L

Lose(alpha_i) == IF alpha_i THEN IDX_L ELSE IDX_R

\* the two arms of `match bound` exchanged
AddBetaSwapped(bound, lose) ==
  \/ bound = "LtBeta" /\ lose = IDX_R
  \/ bound = "GtBeta" /\ lose = IDX_L

\* the `match bound` of gen: whether beta is XORed into v_cw at this level
AddBeta(bound, lose) ==
  \/ bound = "LtBeta" /\ lose = IDX_L
  \/ bound = "GtBeta" /\ lose = IDX_R

\* initial control bits, ts.push([false, true])
GenInitTs == << FALSE, TRUE >>

\* tl_cw without the final `^ true`
TlCwNoFlip(t0l, t1l, alpha_i) == (t0l # t1l) # alpha_i

\* `let tl_cw = t0l ^ t1l ^ alpha_i ^ true`
TlCw(t0l, t1l, alpha_i) == ((t0l # t1l) # alpha_i) # TRUE

\* tr_cw with the `^ true` of tl_cw
TrCwFlipped(t0r, t1r, alpha_i) == ((t0r # t1r) # alpha_i) # TRUE

\* `let tr_cw = t0r ^ t1r ^ alpha_i`
TrCw(t0r, t1r, alpha_i) == (t0r # t1r) # alpha_i

\* a party's next control bit, `t_keep ^ (ts[i - 1][b] & t_keep_cw)`
NextT(t_keep, t_prev, t_keep_cw) == t_keep # (t_prev /\ t_keep_cw)

\* One iteration of gen's loop.  st.ss[i], st.ts[i] and st.vs[i] hold the
\* code's ss[i - 1], ts[i - 1] and the value of v_alpha before level i.
GenLevel(key, f, bound, st, i) ==
  LET p0      == Prg(key, st.ss[i][1])
      p1      == Prg(key, st.ss[i][2])
      alpha_i == BitAt(f.alpha, i)
      keep    == Keep(alpha_i)
      lose    == Lose(alpha_i)
      v_alpha == st.vs[i]
      s_cw    == Xor(p0[lose + 1].s, p1[lose + 1].s)
      v_cw0   == Xor3(p0[lose + 1].v, p1[lose + 1].v, v_alpha)
      v_cw    == IF AddBeta(bound, lose) THEN Xor(v_cw0, f.beta) ELSE v_cw0
      v_next  == Xor4(v_alpha, p0[keep + 1].v, p1[keep + 1].v, v_cw)
      tl_cw   == TlCw(p0[1].t, p1[1].t, alpha_i)
      tr_cw   == TrCw(p0[2].t, p1[2].t, alpha_i)
      t_keep  == IF keep = IDX_L THEN tl_cw ELSE tr_cw
  IN  [ss  |-> Append(st.ss, << Xor(p0[keep + 1].s, Sel(st.ts[i][1], s_cw)),
                                Xor(p1[keep + 1].s, Sel(st.ts[i][2], s_cw)) >>),
       ts  |-> Append(st.ts, << NextT(p0[keep + 1].t, st.ts[i][1], t_keep),
                                NextT(p1[keep + 1].t, st.ts[i][2], t_keep) >>),
       vs  |-> Append(st.vs, v_next),
       cws |-> Append(st.cws, MkCw(s_cw, v_cw, tl_cw, tr_cw))]

RECURSIVE GenLoop(_, _, _, _, _)
GenLoop(key, f, bound, st, i) ==
  IF i > GenLastLevel THEN st
  ELSE GenLoop(key, f, bound, GenLevel(key, f, bound, st, i), i + 1)

\* the final correction word without the accumulator v_alpha
CwNp1NoVAlpha(s0, s1, v_alpha) == Xor(s0, s1)

\* `let cw_np1 = xor(&[&ss[n][0], &ss[n][1], &v_alpha])`
CwNp1(s0, s1, v_alpha) == Xor3(s0, s1, v_alpha)

\* the end of gen: the length assertion, then the final correction word
GenFinish(s0s, st) ==
  IF Len(st.ss) = GenN + 1 /\ Len(st.ts) = GenN + 1 /\ Len(st.cws) = GenN
  THEN [panicked |-> FALSE, ss |-> st.ss, ts |-> st.ts, vs |-> st.vs,
        share |-> MkShare(<< s0s[1], s0s[2] >>, st.cws,
                          CwNp1(st.ss[GenN + 1][1], st.ss[GenN + 1][2],
                                st.vs[GenN + 1]))]
  ELSE [panicked |-> TRUE, ss |-> st.ss, ts |-> st.ts, vs |-> st.vs,
        share |-> NoShare]

\* gen that hands the two seeds to the opposite parties under GtBeta
GenRunGtSwapsSeeds(key, f, s0s, bound) ==
  GenFinish(s0s,
            GenLoop(key, f, bound,
                    [ss |-> << IF bound = "GtBeta" THEN << s0s[2], s0s[1] >>
                               ELSE << s0s[1], s0s[2] >> >>,
                     ts |-> << GenInitTs >>, vs |-> << Zero >>, cws |-> << >>], 1))

\* DcfImpl::gen.  The result keeps the dealer's per-level stacks (ss, ts and
\* the values of v_alpha) beside the share.
GenRun(key, f, s0s, bound) ==
  GenFinish(s0s,
            GenLoop(key, f, bound,
                    [ss |-> << << s0s[1], s0s[2] >> >>, ts |-> << GenInitTs >>,
                     vs |-> << Zero >>, cws |-> << >>], 1))

\* the caller's projection of a share to one party (k0.s0s = vec![k0.s0s[0]])
NarrowShare(k, b) == [k EXCEPT !.s0s = << k.s0s[IF b THEN 2 ELSE 1] >>]

\* ------------------------------------------------------------------ eval

\* `let n = k.cws.len()`
EvalN(k) == Len(k.cws)

\* eval without its length assertion
EvalAssertMissing(k) == TRUE

\* `assert_eq!(n, N * 8)`
EvalAssert(k) == EvalN(k) = N * BitsPerByte

\* the initial seed indexed by the party instead of taken first
InitialSeedByParty(b, k) == k.s0s[IF b THEN Len(k.s0s) ELSE 1]

\* `ss.push(k.s0s[0].to_owned())`: the seed eval starts from
InitialSeed(b, k) == k.s0s[1]

\* the accumulator without `y.fill(0)`: the slot's previous contents stay in
YFillMissing(y) == y

\* `y.fill(0); let v = y;`: the accumulator eval starts from
YFill(y) == Zero

\* One iteration of the closure's loop for input x.  st.ss[i] and st.ts[i]
\* hold the code's ss[i - 1] and ts[i - 1]; st.v is the output slot.
EvalLevel(key, k, x, st, i) ==
  LET cw  == k.cws[i]
      p   == Prg(key, st.ss[i])
      t   == st.ts[i]
      sl  == Xor(p[1].s, Sel(t, cw.s))
      sr  == Xor(p[2].s, Sel(t, cw.s))
      tl  == p[1].t # (t /\ cw.tl)
      tr  == p[2].t # (t /\ cw.tr)
  IN  IF i > N * BitsPerByte
      THEN [st EXCEPT !.panicked = TRUE]
      ELSE IF BitAt(x, i)
      THEN [st EXCEPT !.v  = Xor3(st.v, p[2].v, Sel(t, cw.v)),
                      !.vs = Append(st.vs, Xor3(st.v, p[2].v, Sel(t, cw.v))),
                      !.ss = Append(st.ss, sr),
                      !.ts = Append(st.ts, tr)]
      ELSE [st EXCEPT !.v  = Xor3(st.v, p[1].v, Sel(t, cw.v)),
                      !.vs = Append(st.vs, Xor3(st.v, p[1].v, Sel(t, cw.v))),
                      !.ss = Append(st.ss, sl),
                      !.ts = Append(st.ts, tl)]

RECURSIVE EvalLoop(_, _, _, _, _)
EvalLoop(key, k, x, st, i) ==
  IF i > EvalN(k) \/ st.panicked THEN st
  ELSE EvalLoop(key, k, x, EvalLevel(key, k, x, st, i), i + 1)

\* the end of the closure: `xor_inplace(v, &[&ss[n], cw_np1 if ts[n]])`
EvalFinish(k, st) ==
  IF st.panicked THEN st
  ELSE [st EXCEPT !.v = Xor3(st.v, st.ss[EvalN(k) + 1],
                             Sel(st.ts[EvalN(k) + 1], k.cw_np1))]

\* The closure f(x, y) of eval: [panicked, v (the slot y afterwards), ss, ts,
\* vs (v after each level)].  Indexing an empty s0s panics before y is written.
EvalElem(key, b, k, x, y) ==
  IF Len(k.s0s) = 0
  THEN [panicked |-> TRUE, v |-> y, ss |-> << >>, ts |-> << >>, vs |-> << >>]
  ELSE EvalFinish(k, EvalLoop(key, k, x,
                              [panicked |-> FALSE, v |-> YFill(y),
                               ss |-> << InitialSeed(b, k) >>, ts |-> << b >>,
                               vs |-> << YFill(y) >>], 1))

\* xs.iter().zip(ys.iter_mut()): the number of (x, y) pairs
ZipLen(xs, ys) == IF Len(xs) <= Len(ys) THEN Len(xs) ELSE Len(ys)

\* outputs stored in the order the workers complete
OutSlotByCompletion(j, finished) == Cardinality(finished) + 1

\* the output slot the worker of pair j writes
OutSlot(j, finished) == j

\* ------------------------------------------------------------ serde impls

\* The data formats (the Serializer S and Deserializer D of the impls): one
\* that writes a struct as the sequence of its field values and hands it to
\* visit_seq, and one that writes it as a map keyed by the field names and
\* hands it to visit_map.
WireFormats == {"seq", "map"}

\* serialize_struct(name, len), serialize_field(key, value)..., end()
StructOut(format, keys, values) ==
  IF format = "seq"
  THEN [kind |-> "seq", keys |-> << >>, items |-> values]
  ELSE [kind |-> "map", keys |-> keys, items |-> values]

\* `arr.to_vec()`: a Vec<u8> that carries its own length
ToVec(arr) == [len |-> Len(arr), bytes |-> arr]

\* `arr.copy_from_slice(&vec)` into a [0u8; LAMBDA]: panics unless the lengths agree
CopyFits(vec) == vec.len = Lambda
CopyFromSlice(vec) == [i \in 1..Lambda |-> vec.bytes[i]]

CwFields == << "s", "v", "tl", "tr" >>
ShareFields == << "s0s", "cws", "cw_np1" >>

\* impl Serialize for Cw
SerializeCw(format, cw) ==
  StructOut(format, CwFields, << ToVec(cw.s), ToVec(cw.v), cw.tl, cw.tr >>)

\* impl Serialize for Share
SerializeShare(format, share) ==
  StructOut(format, ShareFields,
            << [i \in 1..Len(share.s0s) |-> ToVec(share.s0s[i])],
               [i \in 1..Len(share.cws) |-> SerializeCw(format, share.cws[i])],
               ToVec(share.cw_np1) >>)

\* outcomes of a deserialize call
DeOk(value) == [status |-> "ok", value |-> value]
DeErr(what) == [status |-> "err", value |-> what]
DePanic == [status |-> "panic", value |-> "copy_from_slice"]

\* CwVisitor::visit_seq, the only visit method CwVisitor defines: the default
\* visit_map of a Visitor answers Err(invalid_type(Map))
DeserializeCw(data) ==
  IF data.kind # "seq" THEN DeErr("invalid type: map")
  ELSE IF Len(data.items) < 1 THEN DeErr("invalid length 0")
  ELSE IF ~CopyFits(data.items[1]) THEN DePanic
  ELSE IF Len(data.items) < 2 THEN DeErr("invalid length 1")
  ELSE IF ~CopyFits(data.items[2]) THEN DePanic
  ELSE IF Len(data.items) < 3 THEN DeErr("invalid length 2")
  ELSE IF Len(data.items) < 4 THEN DeErr("invalid length 3")
  ELSE DeOk(MkCw(CopyFromSlice(data.items[1]), CopyFromSlice(data.items[2]),
                 data.items[3], data.items[4]))

\* Vec<Cw<LAMBDA>> read element by element: the first failure ends it
DeserializeCws(items) ==
  LET each == [i \in 1..Len(items) |-> DeserializeCw(items[i])]
      bad  == {i \in 1..Len(items) : each[i].status # "ok"}
  IN  IF bad = {} THEN DeOk([i \in 1..Len(items) |-> each[i].value])
      ELSE each[CHOOSE i \in bad : \A j \in bad : i <= j]

\* ShareVisitor::visit_seq, the only visit method ShareVisitor defines
DeserializeShareSeq(items, cws) ==
  IF cws.status # "ok" THEN cws
  ELSE IF Len(items) < 3 THEN DeErr("invalid length 2")
  ELSE IF ~CopyFits(items[3]) THEN DePanic
  ELSE DeOk(MkShare([i \in 1..Len(items[1]) |-> CopyFromSlice(items[1][i])],
                    cws.value, CopyFromSlice(items[3])))

\* impl Deserialize for Share
DeserializeShare(data) ==
  IF data.kind # "seq" THEN DeErr("invalid type: map")
  ELSE IF Len(data.items) < 1 THEN DeErr("invalid length 0")
  ELSE IF \E i \in 1..Len(data.items[1]) : ~CopyFits(data.items[1][i]) THEN DePanic
  ELSE IF Len(data.items) < 2 THEN DeErr("invalid length 1")
  ELSE DeserializeShareSeq(data.items, DeserializeCws(data.items[2]))

\* ----------------------------------------------------------------- state

VARIABLES
  prg,      \* the key of the PRG DcfImpl::new was given
  regime,   \* "seq" or "par": the build without or with feature multithread
  dealer,   \* the last gen call: status, arguments, per-level stacks
  k,        \* the share gen returned
  ek,       \* the share in the evaluator's hands: [view, share]
  call,     \* the eval call in progress or last ended
  kept,     \* outputs of an earlier eval call the caller has set aside
  wire      \* a share written out and read back: [status, share, data, result]

vars == << prg, regime, dealer, k, ek, call, kept, wire >>

\* ---------------------------------------------------------------- inputs

\* arrays with every byte drawn from a set
ArraysOver(len, bytes) == [1..len -> bytes]

\* domain points of the batch model and of the pairwise model
MainAlphaBytes == {86}
MainPointBytes == {86, 200}
PairPointBytes == {0, 1, 2, 4, 8, 64, 85, 86, 87, 127, 128, 170, 192, 254, 255}

MainSeedBytes == {7, 200}
PairSeedBytes == {0, 7, 200}

MainBetaBytes == {187}
PairBetaBytes == {0, 187}

\* what the output vector may hold before a call: zeros (as the tests
\* allocate it) or leftovers, a different one in every slot
PreVectors(m) ==
  {[j \in 1..m |-> Zero], [j \in 1..m |-> [i \in 1..Lambda |-> 90 + j]]}

SeqsUpTo(S, n) == UNION {[1..m -> S] : m \in 0..n}

\* the shares a caller can build from gen's result (all fields are pub)
ShareViews == {"own0", "both", "short", "long", "noseed"}


ViewOf(share, view) ==
  CASE view = "own0"   -> NarrowShare(share, FALSE)
    [] view = "own1"   -> NarrowShare(share, TRUE)
    [] view = "both"   -> share
    [] view = "short"  -> [NarrowShare(share, FALSE) EXCEPT
                             !.cws = SubSeq(share.cws, 1, Len(share.cws) - 1)]
    [] view = "long"   -> [NarrowShare(share, FALSE) EXCEPT
                             !.cws = Append(share.cws, share.cws[1])]
    [] view = "noseed" -> [share EXCEPT !.s0s = << >>]

NoCall ==
  [status |-> "none", b |-> FALSE, xs |-> << >>, ys |-> << >>, pre |-> << >>,
   done |-> {}, failed |-> {}]

NoKept == [valid |-> FALSE, b |-> FALSE, share |-> NoShare, xs |-> << >>, ys |-> << >>]

NoDealer ==
  [status |-> "none", f |-> [alpha |-> << >>, beta |-> Zero], s0s |-> << >>,
   bound |-> "LtBeta", ss |-> << >>, ts |-> << >>, vs |-> << >>]

NoWire ==
  [status |-> "none", share |-> NoShare, data |-> StructOut("seq", << >>, << >>),
   result |-> [status |-> "none", value |-> "none"]]

\* --------------------------------------------------------------- actions

\* the dealer's dcf.gen(&f, [&s0_0, &s0_1], bound)
Gen(alphas, betas, seeds) ==
  /\ dealer.status = "none"
  /\ \E alpha \in alphas, beta \in betas, s0 \in seeds, s1 \in seeds,
        bound \in BoundState :
       \E r \in {GenRun(prg, [alpha |-> alpha, beta |-> beta], << s0, s1 >>, bound)} :
         /\ dealer' = [status |-> IF r.panicked THEN "panicked" ELSE "returned",
                       f |-> [alpha |-> alpha, beta |-> beta],
                       s0s |-> << s0, s1 >>, bound |-> bound,
                       ss |-> r.ss, ts |-> r.ts, vs |-> r.vs]
         /\ k' = r.share
  /\ UNCHANGED << prg, regime, ek, call, kept, wire >>

\* the caller clones the share and edits its fields for an evaluator
Deliver(views) ==
  /\ dealer.status = "returned"
  /\ ek.view = "none"
  /\ \E view \in views : ek' = [view |-> view, share |-> ViewOf(k, view)]
  /\ UNCHANGED << prg, regime, dealer, k, call, kept, wire >>

\* the caller allocates the output vector of the next call
Prepare(lens) ==
  /\ ek.view # "none"
  /\ call.status \in {"none", "done", "panicked"}
  /\ \E m \in lens : \E pre \in PreVectors(m) :
       call' = [NoCall EXCEPT !.status = "ready", !.ys = pre, !.pre = pre]
  /\ UNCHANGED << prg, regime, dealer, k, ek, kept, wire >>

\* entry of dcf.eval(b, &ek, xs, &mut ys): the length assertion, then the
\* zip of xs and ys; an empty zip returns at once
EvalCall(bs, batches) ==
  /\ call.status = "ready"
  /\ \E b \in bs, xs \in batches :
       call' = [call EXCEPT
                  !.b = b, !.xs = xs,
                  !.status = IF ~EvalAssert(ek.share) THEN "panicked"
                             ELSE IF ZipLen(xs, call.ys) = 0 THEN "done"
                             ELSE "running"]
  /\ UNCHANGED << prg, regime, dealer, k, ek, kept, wire >>

\* one run of the closure f on the pair (xs[j], ys[slot]).  Sequentially the
\* pairs run in index order and a panic ends the call; with rayon they run in
\* any order and pairs already scheduled may still run after a panic.
Worker ==
  /\ \/ call.status = "running"
     \/ regime = "par" /\ call.status = "panicked" /\ call.done \cup call.failed # {}
  /\ \E j \in 1..ZipLen(call.xs, call.ys) :
       /\ j \notin call.done \cup call.failed
       /\ regime = "seq" => j = Cardinality(call.done) + 1
       /\ \E slot \in {OutSlot(j, call.done)} :
          \E r \in {EvalElem(prg, call.b, ek.share, call.xs[j], call.ys[slot])} :
            call' = [call EXCEPT
                       !.ys[slot] = r.v,
                       !.done = IF r.panicked THEN @ ELSE @ \cup {j},
                       !.failed = IF r.panicked THEN @ \cup {j} ELSE @,
                       !.status =
                         IF r.panicked \/ @ = "panicked" THEN "panicked"
                         ELSE IF call.done \cup {j} = 1..ZipLen(call.xs, call.ys)
                         THEN "done"
                         ELSE "running"]
  /\ UNCHANGED << prg, regime, dealer, k, ek, kept, wire >>

\* the caller sets the outputs of a returned call aside (ys0 of the tests) and
\* turns to the other party's share
NextParty ==
  /\ call.status = "done"
  /\ ~kept.valid
  /\ kept' = [valid |-> TRUE, b |-> call.b, share |-> ek.share, xs |-> call.xs,
              ys |-> call.ys]
  /\ ek' = [view |-> "none", share |-> NoShare]
  /\ call' = NoCall
  /\ UNCHANGED << prg, regime, dealer, k, wire >>

\* the holder of a share writes it out with share.serialize(serializer)
Serialize(formats) ==
  /\ ek.view # "none"
  /\ wire.status = "none"
  /\ \E format \in formats :
       wire' = [NoWire EXCEPT !.status = "written", !.share = ek.share,
                             !.data = SerializeShare(format, ek.share)]
  /\ UNCHANGED << prg, regime, dealer, k, ek, call, kept >>

\* the receiver reads it back with Share::deserialize(deserializer)
Deserialize ==
  /\ wire.status = "written"
  /\ wire' = [wire EXCEPT !.status = "read", !.result = DeserializeShare(wire.data)]
  /\ UNCHANGED << prg, regime, dealer, k, ek, call, kept >>

\* -------------------------------------------------------- specifications

InitCommon ==
  /\ prg \in PrgKeys
  /\ dealer = NoDealer
  /\ k = NoShare
  /\ ek = [view |-> "none", share |-> NoShare]
  /\ call = NoCall
  /\ kept = NoKept
  /\ wire = NoWire

\* the batch model: one evaluator, every share view, batches of any shape
Init == InitCommon /\ regime \in {"seq", "par"}

Next ==
  \/ Gen(ArraysOver(N, MainAlphaBytes), ArraysOver(Lambda, MainBetaBytes),
         ArraysOver(Lambda, MainSeedBytes))
  \/ Deliver(ShareViews)
  \/ Prepare(0..MaxBatch)
  \/ EvalCall(BOOLEAN, SeqsUpTo(ArraysOver(N, MainPointBytes), MaxBatch))
  \/ Worker

Spec == Init /\ [][Next]_vars

\* the pairwise model: both parties evaluate the same point with their own
\* narrowed share, one after the other, as the tests do
PairViews == IF kept.valid THEN {IF kept.b THEN "own0" ELSE "own1"} ELSE {"own0", "own1"}

PairBatches ==
  IF kept.valid THEN {kept.xs}
  ELSE {<< x >> : x \in ArraysOver(N, PairPointBytes)}

InitPair == InitCommon /\ regime = "seq"

NextPair ==
  \/ Gen(ArraysOver(N, PairPointBytes), ArraysOver(Lambda, PairBetaBytes),
         ArraysOver(Lambda, PairSeedBytes))
  \/ Deliver(PairViews)
  \/ Prepare({1})
  \/ EvalCall({ek.view = "own1"}, PairBatches)
  \/ Worker
  \/ NextParty

SpecPair == InitPair /\ [][NextPair]_vars

\* the dealer's model: gen alone, over every alpha of the domain
NextGen ==
  Gen(ArraysOver(N, Byte), ArraysOver(Lambda, PairBetaBytes),
      ArraysOver(Lambda, PairSeedBytes))

SpecGen == InitPair /\ [][NextGen]_vars

\* the transport model: a share of gen, whole or narrowed, is written out in
\* some data format and read back
WireViews == {"own0", "own1", "both"}

NextWire ==
  \/ Gen(ArraysOver(N, PairPointBytes), ArraysOver(Lambda, PairBetaBytes),
         ArraysOver(Lambda, PairSeedBytes))
  \/ Deliver(WireViews)
  \/ Serialize(WireFormats)
  \/ Deserialize

SpecWire == InitPair /\ [][NextWire]_vars

\* --------------------------------------------------- pairwise properties

\* both parties have evaluated the same batch, each with its own narrowed
\* share of the dealer's k: party kept.b first, party call.b second
PairDone ==
  /\ dealer.status = "returned"
  /\ kept.valid
  /\ call.status = "done"
  /\ call.b # kept.b
  /\ kept.share = NarrowShare(k, kept.b)
  /\ ek.share = NarrowShare(k, call.b)
  /\ call.xs = kept.xs
  /\ Len(call.ys) = Len(call.xs)
  /\ Len(kept.ys) = Len(kept.xs)

\* the reconstructed value eval(false, k_0, x) XOR eval(true, k_1, x) of pair j
Reconstructed(j) == Xor(kept.ys[j], call.ys[j])

\* C1: under LtBeta the XOR of the two parties' outputs for x is beta when
\* x < alpha and all-zero otherwise, x and alpha read as unsigned integers
\* most-significant bit first, for every PRG, alpha, beta and seeds.
LtCorrect ==
  (PairDone /\ dealer.bound = "LtBeta") =>
    \A j \in 1..Len(call.xs) :
      Reconstructed(j) = IF ValueOf(call.xs[j]) < ValueOf(dealer.f.alpha)
                         THEN dealer.f.beta ELSE Zero

\* x < alpha under LtBeta with a non-constant PRG, equal initial seeds and a
\* non-zero beta: the outputs differ and reconstruct beta
LtWitness ==
  /\ PairDone /\ dealer.bound = "LtBeta" /\ prg # 0
  /\ dealer.s0s[1] = dealer.s0s[2]
  /\ dealer.f.beta # Zero
  /\ ValueOf(call.xs[1]) < ValueOf(dealer.f.alpha)
  /\ Reconstructed(1) = dealer.f.beta
  /\ kept.ys[1] # Zero

\* C2: under GtBeta the XOR of the two parties' outputs for x is beta when
\* x > alpha and all-zero otherwise.
GtCorrect ==
  (PairDone /\ dealer.bound = "GtBeta") =>
    \A j \in 1..Len(call.xs) :
      Reconstructed(j) = IF ValueOf(call.xs[j]) > ValueOf(dealer.f.alpha)
                         THEN dealer.f.beta ELSE Zero

\* x > alpha under GtBeta with a non-constant PRG, distinct seeds, non-zero beta
GtWitness ==
  /\ PairDone /\ dealer.bound = "GtBeta" /\ prg # 0
  /\ dealer.s0s[1] # dealer.s0s[2]
  /\ dealer.f.beta # Zero
  /\ ValueOf(call.xs[1]) > ValueOf(dealer.f.alpha)
  /\ Reconstructed(1) = dealer.f.beta
  /\ call.ys[1] # Zero

\* C3: under both bounds the point alpha itself reconstructs to all-zero.
AlphaExcluded ==
  PairDone =>
    \A j \in 1..Len(call.xs) :
      call.xs[j] = dealer.f.alpha => Reconstructed(j) = Zero

\* x = alpha under GtBeta with a non-constant PRG and non-zero beta: the two
\* parties hold the same non-zero output
AlphaExcludedWitness ==
  /\ PairDone /\ dealer.bound = "GtBeta" /\ prg # 0
  /\ dealer.f.beta # Zero
  /\ call.xs[1] = dealer.f.alpha
  /\ kept.ys[1] = call.ys[1]
  /\ call.ys[1] # Zero
  /\ dealer.vs[GenN + 1] # Zero

\* ------------------------------------------------------ batch properties

\* an eval call has been entered (it runs, has returned or has panicked)
Entered == call.status \in {"running", "done", "panicked"}

\* the number of (x, y) pairs of the call
Pairs == 1..ZipLen(call.xs, call.ys)

\* C4 as stated: eval produces no outputs from a share that still holds both
\* initial seeds; it fails instead.
UnnarrowedRejected ==
  (Entered /\ Len(ek.share.s0s) = 2) =>
    (call.status = "panicked" /\ call.ys = call.pre)

\* C4 as amended: eval does not look at the length of s0s; given the share
\* as gen returned it, it reads s0s[0] alone and computes, for either party
\* bit b, what it computes from the share narrowed to the first seed.
UnnarrowedUsesFirstSeed ==
  (Entered /\ ek.view = "both") =>
    /\ call.status # "panicked"
    /\ \A j \in call.done :
         \E r \in {EvalElem(prg, call.b, NarrowShare(ek.share, FALSE), call.xs[j], Zero)} :
           ~r.panicked /\ call.ys[j] = r.v

\* party 1 has evaluated a point with the un-narrowed share of distinct seeds
UnnarrowedWitness ==
  /\ ek.view = "both" /\ call.status = "done" /\ call.b
  /\ dealer.s0s[1] # dealer.s0s[2]
  /\ prg # 0
  /\ 1 \in call.done
  /\ call.ys[1] # call.pre[1]

\* C5: a share whose number of correction words is not 8*N is rejected at
\* entry, before any pair runs; and whenever an eval call is rejected (the
\* length assertion or an empty s0s) no pair has completed and every output
\* slot holds what it held before the call.
RejectedLeavesOutputs ==
  /\ (Entered /\ Len(ek.share.cws) # BitsPerByte * N) =>
       (call.status = "panicked" /\ call.done = {} /\ call.failed = {})
  /\ call.status = "panicked" => (call.ys = call.pre /\ call.done = {})

\* a share one correction word short is rejected with a non-empty batch and
\* non-zero previous contents of the output slots
RejectedWitness ==
  /\ call.status = "panicked" /\ ek.view = "short"
  /\ Len(call.xs) = MaxBatch /\ Len(call.ys) = MaxBatch
  /\ call.ys[1] # Zero

\* C6 as stated: when eval returns, every one of the |xs| inputs has its
\* output.
EveryInputHasOutput ==
  call.status = "done" => call.done = 1..Len(call.xs)

\* the outputs of C7: whatever the output slots held before, whatever the
\* position in the batch, the other elements and the calls made earlier, the
\* slot of a completed pair j holds the value determined by (b, share, xs[j])
\* alone, and every other slot is untouched
EvalPureOutputs ==
  Entered =>
    \A j \in 1..Len(call.ys) :
      IF j \in call.done
      THEN \E r \in {EvalElem(prg, call.b, ek.share, call.xs[j], Zero)} :
             call.ys[j] = r.v
      ELSE call.ys[j] = call.pre[j]

\* the frame of C7: no step of an eval call changes the share it was given
\* or the dealer's
ShareReadOnly ==
  (call.status \in {"ready", "running"} \/ call'.status \in {"running", "done", "panicked"})
    => (ek' = ek /\ k' = k)

RECURSIVE SeqEval(_, _, _, _, _, _)
SeqEval(key, b, share, xs, ys, j) ==
  IF j > ZipLen(xs, ys) THEN ys
  ELSE SeqEval(key, b, share, xs,
               [ys EXCEPT ![j] = EvalElem(key, b, share, xs[j], ys[j]).v], j + 1)

\* C8: in either regime and for every completion order of the workers, each
\* completed pair's slot holds what the sequential in-order evaluation writes
\* there, each slot not yet reached holds its previous contents, and so the
\* returned output vector is the sequential one.
ParallelMatchesSequential ==
  (call.status \in {"running", "done"}) =>
    \E seq \in {SeqEval(prg, call.b, ek.share, call.xs, call.pre, 1)} :
      /\ Len(call.ys) = Len(seq)
      /\ \A j \in 1..Len(call.ys) :
           call.ys[j] = IF j \in call.done THEN seq[j] ELSE call.pre[j]
      /\ call.status = "done" => call.ys = seq

\* with rayon the second pair has completed before the first
ParallelWitness ==
  /\ regime = "par" /\ call.status = "running"
  /\ call.done = {2}
  /\ call.xs[1] # call.xs[2]
  /\ call.ys[2] # call.pre[2]
  /\ call.ys[1] = call.pre[1]

\* C9: gen returns for every input (its length assertion holds); the share
\* has 8*N correction words, the i-th being the one gen computes at level i
\* from the dealer's state after level i - 1; s0s is the two seeds in the
\* order supplied, so narrowing to b hands party b the seed the dealer
\* paired with the initial control bit t = b.
GenReturnsShare ==
  /\ dealer.status # "panicked"
  /\ dealer.status = "returned" =>
       /\ Len(k.cws) = BitsPerByte * N
       /\ Len(dealer.ss) = BitsPerByte * N + 1
       /\ k.s0s = dealer.s0s
       /\ Len(k.s0s) = 2
       /\ \A i \in 1..Len(k.cws) :
            \E st \in {GenLevel(prg, dealer.f, dealer.bound,
                                [ss |-> dealer.ss, ts |-> dealer.ts,
                                 vs |-> dealer.vs, cws |-> << >>], i)} :
              k.cws[i] = st.cws[1]
       /\ \A b \in BOOLEAN :
            /\ NarrowShare(k, b).s0s = << dealer.ss[1][IF b THEN 2 ELSE 1] >>
            /\ dealer.ts[1][IF b THEN 2 ELSE 1] = b

\* gen has returned a share for distinct seeds whose correction words are
\* not all alike
GenWitness ==
  /\ dealer.status = "returned"
  /\ dealer.s0s[1] # dealer.s0s[2]
  /\ Len(k.cws) = BitsPerByte * N
  /\ k.cws[1] # k.cws[BitsPerByte * N]
  /\ NarrowShare(k, TRUE).s0s = << dealer.s0s[2] >>

\* ------------------------------------------------------ transport properties

\* what was written holds the fields in the order s0s, cws, cw_np1, and each
\* correction word in the order s, v, tl, tr
WrittenInOrder ==
  LET d == wire.data  sh == wire.share
  IN  /\ d.kind = "map" => d.keys = ShareFields
      /\ Len(d.items) = 3
      /\ d.items[1] = [i \in 1..Len(sh.s0s) |-> ToVec(sh.s0s[i])]
      /\ Len(d.items[2]) = Len(sh.cws)
      /\ \A i \in 1..Len(sh.cws) :
           /\ d.items[2][i].kind = "map" => d.items[2][i].keys = CwFields
           /\ d.items[2][i].items =
                << ToVec(sh.cws[i].s), ToVec(sh.cws[i].v), sh.cws[i].tl, sh.cws[i].tr >>
      /\ d.items[3] = ToVec(sh.cw_np1)

\* the share read back equals the share written, field by field
ReadBackEqual ==
  /\ wire.result.status = "ok"
  /\ Len(wire.result.value.s0s) = Len(wire.share.s0s)
  /\ wire.result.value.s0s = wire.share.s0s
  /\ wire.result.value.cws = wire.share.cws
  /\ wire.result.value.cw_np1 = wire.share.cw_np1

\* C11 as stated: every share of gen, whole or narrowed to a party, is written
\* with its fields in the order s0s, cws, cw_np1 and reads back equal to the
\* original in s0s, in every correction word and in cw_np1.
RoundTripIdentity ==
  /\ wire.status # "none" => WrittenInOrder
  /\ wire.status = "read" => ReadBackEqual

\* what the impls do, format by format: a struct written as a sequence reads
\* back equal; a struct written as a map is refused with an error
RoundTripBySequence ==
  /\ wire.status # "none" => WrittenInOrder
  /\ wire.status = "read" /\ wire.data.kind = "seq" => ReadBackEqual
  /\ wire.status = "read" /\ wire.data.kind = "map" =>
       wire.result = DeErr("invalid type: map")

RoundTripBySequenceWitness ==
  /\ wire.status = "read"
  /\ wire.data.kind = "seq"
  /\ Len(wire.share.s0s) = 1
  /\ wire.share.cw_np1 # Zero
  /\ \E i \in 1..Len(wire.share.cws) : wire.share.cws[i].tl # wire.share.cws[i].tr

MapRefusedWitness ==
  /\ wire.status = "read"
  /\ wire.data.kind = "map"
  /\ wire.share = k

\* --------------------------------------------------------- dealer properties

OtherBound(bound) == IF bound = "LtBeta" THEN "GtBeta" ELSE "LtBeta"

\* two runs of gen went through the same seed pairs and control-bit pairs and
\* emitted correction words with the same s, tl and tr at every level
SameButV(ssA, tsA, shareA, ssB, tsB, shareB) ==
  /\ ssA = ssB
  /\ tsA = tsB
  /\ shareA.s0s = shareB.s0s
  /\ Len(shareA.cws) = Len(shareB.cws)
  /\ \A i \in 1..Len(shareA.cws) :
       /\ shareA.cws[i].s = shareB.cws[i].s
       /\ shareA.cws[i].tl = shareB.cws[i].tl
       /\ shareA.cws[i].tr = shareB.cws[i].tr

\* C13: for the same (alpha, beta, seeds, PRG), gen under LtBeta and gen under
\* GtBeta go through the same per-level seed pairs and control-bit pairs and
\* emit correction words with identical s, tl and tr; the shares differ at
\* most in the v fields and in cw_np1.
BoundsDifferOnlyInV ==
  dealer.status = "returned" =>
    \E r \in {GenRun(prg, dealer.f, dealer.s0s, OtherBound(dealer.bound))} :
      /\ ~r.panicked
      /\ SameButV(dealer.ss, dealer.ts, k, r.ss, r.ts, r.share)

\* a gen whose share does differ from the other bound's, in a v and in cw_np1
BoundsDifferWitness ==
  /\ dealer.status = "returned"
  /\ dealer.s0s[1] # dealer.s0s[2]
  /\ \E r \in {GenRun(prg, dealer.f, dealer.s0s, OtherBound(dealer.bound))} :
       /\ r.share.cw_np1 # k.cw_np1
       /\ \E i \in 1..GenN : r.share.cws[i].v # k.cws[i].v
       /\ \E i \in 1..GenN : k.cws[i].tl # k.cws[i].tr

\* the level step keeps two differing control bits differing, for every PRG
\* output (t0l, t0r, t1l, t1r), every bit of alpha and either previous pair
LevelKeepsBitsApart ==
  \A t0l, t0r, t1l, t1r, alpha_i, t0 \in BOOLEAN :
    LET t_keep_cw == IF Keep(alpha_i) = IDX_L THEN TlCw(t0l, t1l, alpha_i)
                     ELSE TrCw(t0r, t1r, alpha_i)
        t0_keep   == IF Keep(alpha_i) = IDX_L THEN t0l ELSE t0r
        t1_keep   == IF Keep(alpha_i) = IDX_L THEN t1l ELSE t1r
    IN  NextT(t0_keep, t0, t_keep_cw) # NextT(t1_keep, ~t0, t_keep_cw)

\* C14: at every level i in 0..n the dealer's two control bits differ,
\* ts[i][0] XOR ts[i][1] = 1: they start as (false, true) and every level
\* step preserves the difference, so exactly one of the two is set.
OnPathBitsDiffer ==
  /\ LevelKeepsBitsApart
  /\ dealer.status = "returned" =>
       /\ Len(dealer.ts) = GenN + 1
       /\ dealer.ts[1] = << FALSE, TRUE >>
       /\ \A i \in 1..(GenN + 1) :
            Cardinality({b \in 1..2 : dealer.ts[i][b]}) = 1

\* a gen whose control bits change hands along the path, over an alpha with
\* both bit values
OnPathBitsWitness ==
  /\ dealer.status = "returned"
  /\ \E i, j \in 2..(GenN + 1) :
       dealer.ts[i] = << TRUE, FALSE >> /\ dealer.ts[j] = << FALSE, TRUE >>
  /\ \E i, j \in 1..GenN : BitAt(dealer.f.alpha, i) /\ ~BitAt(dealer.f.alpha, j)

\* ---------------------------------------------------------- path properties

\* the outputs of party 0 and of party 1 for pair j of a finished pair of calls
Out0(j) == IF kept.b THEN call.ys[j] ELSE kept.ys[j]
Out1(j) == IF kept.b THEN kept.ys[j] ELSE call.ys[j]

\* x and alpha have the same first i bits, most significant first
Agree(x, alpha, i) == \A m \in 1..i : BitAt(x, m) = BitAt(alpha, m)

\* the first level at which x leaves the path of alpha
FirstDiff(x, alpha) ==
  CHOOSE j \in 1..GenN : BitAt(x, j) # BitAt(alpha, j) /\ Agree(x, alpha, j - 1)

\* r0, r1: the two parties' runs of the closure on the same x.  From level j
\* on they hold the same seed and control bit, and the XOR of their
\* accumulators no longer changes, the final step included.
Converged(r0, r1, j) ==
  /\ \A i \in j..GenN :
       /\ r0.ss[i + 1] = r1.ss[i + 1]
       /\ r0.ts[i + 1] = r1.ts[i + 1]
       /\ Xor(r0.vs[i + 1], r1.vs[i + 1]) = Xor(r0.vs[j + 1], r1.vs[j + 1])
  /\ Xor(r0.v, r1.v) = Xor(r0.vs[j + 1], r1.vs[j + 1])

\* C12: for x other than alpha, with j the first level where x's bit differs
\* from alpha's, the two parties evaluating x with their narrowed shares hold
\* the same seed and the same control bit after level j and at every later
\* level up to n, so every contribution after level j, the final
\* s XOR cw_np1 step included, cancels in the XOR of the two outputs.
OffPathConvergence ==
  PairDone =>
    \A jx \in 1..Len(call.xs) :
      call.xs[jx] # dealer.f.alpha =>
        \E r0 \in {EvalElem(prg, FALSE, NarrowShare(k, FALSE), call.xs[jx], Zero)} :
        \E r1 \in {EvalElem(prg, TRUE, NarrowShare(k, TRUE), call.xs[jx], Zero)} :
          /\ ~r0.panicked /\ ~r1.panicked
          /\ r0.v = Out0(jx) /\ r1.v = Out1(jx)
          /\ Converged(r0, r1, FirstDiff(call.xs[jx], dealer.f.alpha))

\* x leaves the path of alpha in the upper half; before that level the
\* parties' seeds differ, after it they share a non-zero seed and both apply
\* the correction words
OffPathWitness ==
  /\ PairDone /\ prg # 0
  /\ dealer.f.beta # Zero
  /\ call.xs[1] # dealer.f.alpha
  /\ FirstDiff(call.xs[1], dealer.f.alpha) \in 2..4
  /\ Reconstructed(1) = dealer.f.beta
  /\ \E r0 \in {EvalElem(prg, FALSE, NarrowShare(k, FALSE), call.xs[1], Zero)} :
     \E r1 \in {EvalElem(prg, TRUE, NarrowShare(k, TRUE), call.xs[1], Zero)} :
       /\ r0.ss[FirstDiff(call.xs[1], dealer.f.alpha)]
            # r1.ss[FirstDiff(call.xs[1], dealer.f.alpha)]
       /\ r0.ss[GenN + 1] = r1.ss[GenN + 1]
       /\ r0.ss[GenN + 1] # Zero
       /\ r0.ts[GenN + 1] /\ r1.ts[GenN + 1]

\* r0, r1: the two parties' runs of the closure on x.  At every level i that
\* x shares with alpha each party holds the dealer's seed and control bit of
\* that party, and the accumulators XOR to the dealer's v_alpha.
Replays(r0, r1, x) ==
  \A i \in 0..GenN :
    Agree(x, dealer.f.alpha, i) =>
      /\ r0.ss[i + 1] = dealer.ss[i + 1][1]
      /\ r1.ss[i + 1] = dealer.ss[i + 1][2]
      /\ r0.ts[i + 1] = dealer.ts[i + 1][1]
      /\ r1.ts[i + 1] = dealer.ts[i + 1][2]
      /\ Xor(r0.vs[i + 1], r1.vs[i + 1]) = dealer.vs[i + 1]

\* C15: eval replays gen along the path of alpha.  For every x that agrees
\* with alpha on its first i bits (0 <= i <= n), party b's seed and control
\* bit after level i are gen's ss[i][b] and ts[i][b], and the XOR of the two
\* parties' accumulators after level i is gen's v_alpha after level i.
EvalReplaysGen ==
  PairDone =>
    \A jx \in 1..Len(call.xs) :
      \E r0 \in {EvalElem(prg, FALSE, NarrowShare(k, FALSE), call.xs[jx], Zero)} :
      \E r1 \in {EvalElem(prg, TRUE, NarrowShare(k, TRUE), call.xs[jx], Zero)} :
        /\ ~r0.panicked /\ ~r1.panicked
        /\ r0.v = Out0(jx) /\ r1.v = Out1(jx)
        /\ Replays(r0, r1, call.xs[jx])

\* x follows alpha for seven levels and leaves it at the last one, with a
\* non-constant PRG and a non-zero accumulator on the way
ReplayWitness ==
  /\ PairDone /\ prg # 0
  /\ dealer.f.beta # Zero
  /\ call.xs[1] # dealer.f.alpha
  /\ Agree(call.xs[1], dealer.f.alpha, GenN - 1)
  /\ dealer.vs[GenN] # Zero
  /\ dealer.ss[GenN][1] # dealer.ss[GenN][2]

====
